---- MODULE Spec2Model ----
(***************************************************************************)
(* A model of main.py: the command line (parse_args), the training path    *)
(* (train) and the concurrent evaluation harness (evaluate, evaluate_fn).  *)
(* The helpers imported from utils (Counter, Trainer, Tester, Evaluator,   *)
(* check_dir, copy_file, find_file, init_dir, init_test_flag) are not part *)
(* of main.py; they are modelled from their documented contracts.          *)
(***************************************************************************)
EXTENDS Integers, Sequences, FiniteSets, TLC

\* ---------------------------------------------------------------- bounds
MaxAgents == 2
MaxTotalStep == 4
MaxInterval == 3
MaxCalls == 6
MaxInitCalls == 3

\* ------------------------------------------------------- strings as code
\* A string is a sequence of one-character strings.
RECURSIVE Split(_, _)
Split(s, sep) ==
    IF \A k \in 1..Len(s) : s[k] # sep
    THEN <<s>>
    ELSE LET k == CHOOSE x \in 1..Len(s) :
                      s[x] = sep /\ \A y \in 1..(x - 1) : s[y] # sep
         IN  <<SubSeq(s, 1, k - 1)>> \o Split(SubSeq(s, k + 1, Len(s)), sep)

RECURSIVE JoinStr(_, _)
JoinStr(list, sep) ==
    IF Len(list) = 0 THEN <<>>
    ELSE IF Len(list) = 1 THEN list[1]
    ELSE list[1] \o <<sep>> \o JoinStr(Tail(list), sep)

LastOf(list) == list[Len(list)]

\* ------------------------------------------------------------ the inputs
base_dir == <<"r">>

\* agent folder names a user may pass; "b/a" and "a" share their last component
AgentNames == { <<"a">>, <<"b">>, <<"b", "/", "a">> }

AgentLists == UNION { [1..n -> AgentNames] : n \in 1..MaxAgents }

\* what the file system holds for an agent folder
AgentKinds == {"ok", "no_dir", "no_config", "bad_config", "load_fail"}

ValidModes == {"no_test", "in_train_test", "after_train_test", "all_test"}
TestModes == ValidModes \cup {"bad_mode"}

\* what --config-dir points at
ConfigKinds == {"ok", "missing", "malformed", "no_env", "bad_train", "bad_model"}

ConfigFiles == [kind : ConfigKinds,
                total_step : 1..MaxTotalStep,
                test_interval : 1..MaxInterval,
                log_interval : 1..MaxInterval]

DefaultConfig == [kind |-> "ok", total_step |-> 1, test_interval |-> 1,
                  log_interval |-> 1]

VARIABLES
    args,         \* the command line: option, test_mode, agents
    config_file,  \* the file --config-dir names
    agent_fs,     \* agent folder name -> what the file system holds for it
    pc,           \* position of the main thread
    exit_code,    \* -1 while running
    usage,        \* parser.print_help() was called
    dirs,         \* directories created under base_dir
    snapshot,     \* the config file was copied into dirs['data']
    env_ports,    \* environments constructed: [owner, port]
    flags,        \* (in_test, post_test) of train
    counter,      \* global_counter
    model,        \* the MA2C model of train was constructed
    trainer,      \* Trainer.run: in-loop tests done, step at which the loop ended
    post_tests,   \* number of Tester.run_offline calls
    saves,        \* tags passed to model.save, in order
    agents,       \* evaluate: args.agents.split(',')
    threads,      \* evaluate: the thread objects in creation order
    joined,       \* evaluate: number of threads joined
    outputs,      \* keys written under dirs['eva_data']
    log,          \* logging.error lines: the agent they name
    calls         \* the role sets init_dir was called with, when it is run on its own

vars == <<args, config_file, agent_fs, pc, exit_code, usage, dirs, snapshot,
          env_ports, flags, counter, model, trainer, post_tests, saves,
          agents, threads, joined, outputs, log, calls>>

trainVars == <<snapshot, flags, counter, model, trainer, post_tests, saves>>
evalVars == <<agents, threads, joined, outputs, log>>
inputVars == <<args, config_file, agent_fs, calls>>

NoCounter == [cur_step |-> 0, total_step |-> 0, test_step |-> 0, log_step |-> 0]
NoFlags == [in_test |-> FALSE, post_test |-> FALSE, set |-> FALSE]
NoTrainer == [in_tests |-> 0, end_step |-> -1, steps |-> 0]

\* ------------------------------------------------------------------ Init
TrainArgs ==
    { [option |-> "train", test_mode |-> m, agents |-> <<"n">>] : m \in TestModes }

EvaluateArgs ==
    { [option |-> "evaluate", test_mode |-> "no_test",
       agents |-> JoinStr(l, ",")] : l \in AgentLists }

NoOptionArgs ==
    { [option |-> "", test_mode |-> "no_test", agents |-> <<"n">>] }

Init ==
    /\ args \in TrainArgs \cup EvaluateArgs \cup NoOptionArgs
    /\ IF args.option = "train"
       THEN config_file \in ConfigFiles
       ELSE config_file = DefaultConfig
    /\ agent_fs \in [AgentNames -> AgentKinds]
    /\ \A a \in AgentNames :
          (args.option # "evaluate"
             \/ \A k \in 1..Len(Split(args.agents, ",")) :
                    Split(args.agents, ",")[k] # a)
          => agent_fs[a] = "ok"
    /\ pc = "parse_args"
    /\ exit_code = -1
    /\ usage = FALSE
    /\ dirs = {}
    /\ snapshot = FALSE
    /\ env_ports = {}
    /\ flags = NoFlags
    /\ counter = NoCounter
    /\ model = FALSE
    /\ trainer = NoTrainer
    /\ post_tests = 0
    /\ saves = <<>>
    /\ agents = <<>>
    /\ threads = <<>>
    /\ joined = 0
    /\ outputs = {}
    /\ log = {}
    /\ calls = <<>>

\* ------------------------------------------------------------ parse_args
\* argparse rejects a --test-mode outside choices with exit status 2
\* parse_args without choices= on --test-mode
parse_args_no_choices ==
    /\ pc = "parse_args"
    /\ IF args.option = ""
       THEN pc' = "exit" /\ exit_code' = 1 /\ usage' = TRUE
       ELSE pc' = "main" /\ exit_code' = exit_code /\ usage' = usage
    /\ UNCHANGED <<inputVars, dirs, env_ports, trainVars, evalVars>>

\* parse_args without the check that a subcommand was given
parse_args_no_option_check ==
    /\ pc = "parse_args"
    /\ IF args.option = "train" /\ args.test_mode \notin ValidModes
       THEN pc' = "exit" /\ exit_code' = 2 /\ usage' = usage
       ELSE pc' = "main" /\ exit_code' = exit_code /\ usage' = usage
    /\ UNCHANGED <<inputVars, dirs, env_ports, trainVars, evalVars>>

parse_args ==
    /\ pc = "parse_args"
    /\ IF args.option = "train" /\ args.test_mode \notin ValidModes
       THEN pc' = "exit" /\ exit_code' = 2 /\ usage' = usage
       ELSE IF args.option = ""
       THEN pc' = "exit" /\ exit_code' = 1 /\ usage' = TRUE
       ELSE pc' = "main" /\ exit_code' = exit_code /\ usage' = usage
    /\ UNCHANGED <<inputVars, dirs, env_ports, trainVars, evalVars>>

main ==
    /\ pc = "main"
    /\ pc' = IF args.option = "train" THEN "train_init_dir" ELSE "evaluate_init_dir"
    /\ UNCHANGED <<inputVars, exit_code, usage, dirs, env_ports, trainVars, evalVars>>

\* an exception that reaches the top of the main thread ends the process
Raise ==
    /\ pc' = "exit"
    /\ exit_code' = 1

\* ----------------------------------------------------------------- utils
\* the entries a base directory may hold besides the role directories, each
\* with the directory it lies in ("" is the base directory itself)
ParentOf ==
    [e \in {"log", "data", "model", "eva_data", "eva_log", "a"} |-> ""]
    @@ ("data/config.ini" :> "data")
    @@ ("model/checkpoint" :> "model")
    @@ ("eva_data/a.csv" :> "eva_data")
    @@ ("a/data" :> "a")
    @@ ("a/model" :> "a")
    @@ ("a/data/config.ini" :> "a/data")

\* init_dir that removes a role directory with its content and makes it anew
init_dir_recreate(existing, pathes) ==
    {e \in existing : e \notin DOMAIN ParentOf \/ ParentOf[e] \notin pathes}
        \cup pathes

\* creates base_dir/role for each role when it is absent
init_dir(existing, pathes) == existing \cup pathes

init_test_flag(mode) ==
    [in_test |-> mode \in {"in_train_test", "all_test"},
     post_test |-> mode \in {"after_train_test", "all_test"},
     set |-> TRUE]

Counter(total_step, test_step, log_step) ==
    [cur_step |-> 0, total_step |-> total_step, test_step |-> test_step,
     log_step |-> log_step]

is_done(c) == c.cur_step >= c.total_step

\* advance without the saturation at total_step
advance_unbounded(c) == [c EXCEPT !.cur_step = @ + 1]

advance(c) ==
    IF c.cur_step >= c.total_step THEN c
    ELSE [c EXCEPT !.cur_step = @ + 1]

should_test(c, step) == step % c.test_step = 0

should_log(c, step) == step % c.log_step = 0

\* -------------------------------------------------------------- init_env
init_env(owner, port) == [owner |-> owner, port |-> port]

DefaultPort == 1

\* ------------------------------------------------------------------ train
\* lines 59-61: dirs = init_dir(base_dir); init_log(dirs['log'])
\* train going from init_dir straight to the config read, without copy_file
train_init_dir_skip_copy ==
    /\ pc = "train_init_dir"
    /\ dirs' = init_dir(dirs, {"log", "data", "model"})
    /\ pc' = "train_config"
    /\ UNCHANGED <<inputVars, exit_code, usage, env_ports, trainVars, evalVars>>

train_init_dir ==
    /\ pc = "train_init_dir"
    /\ dirs' = init_dir(dirs, {"log", "data", "model"})
    /\ pc' = "train_copy_file"
    /\ UNCHANGED <<inputVars, exit_code, usage, env_ports, trainVars, evalVars>>

\* lines 62-63: copy_file(config_dir, dirs['data']); copying a file that does
\* not exist either raises or copies nothing
train_copy_file ==
    /\ pc = "train_copy_file"
    /\ IF config_file.kind = "missing"
       THEN \/ Raise /\ UNCHANGED snapshot
            \/ pc' = "train_config" /\ UNCHANGED <<snapshot, exit_code>>
       ELSE /\ snapshot' = TRUE
            /\ pc' = "train_config"
            /\ UNCHANGED exit_code
    /\ UNCHANGED <<inputVars, usage, dirs, env_ports, flags, counter, model,
                   trainer, post_tests, saves, evalVars>>

\* line 66 with the pair unpacked in the wrong order
train_config_swapped ==
    /\ pc = "train_config"
    /\ IF config_file.kind = "malformed" \/ args.test_mode \notin ValidModes
       THEN Raise /\ UNCHANGED flags
       ELSE /\ flags' = [in_test |-> init_test_flag(args.test_mode).post_test,
                         post_test |-> init_test_flag(args.test_mode).in_test,
                         set |-> TRUE]
            /\ pc' = "train_init_env"
            /\ UNCHANGED exit_code
    /\ UNCHANGED <<inputVars, usage, dirs, env_ports, snapshot, counter, model,
                   trainer, post_tests, saves, evalVars>>

\* lines 64-66: config.read(config_dir) raises on a file it cannot parse and
\* reads nothing from a missing one; then the test flags are resolved
train_config ==
    /\ pc = "train_config"
    /\ IF config_file.kind = "malformed" \/ args.test_mode \notin ValidModes
       THEN Raise /\ UNCHANGED flags
       ELSE /\ flags' = init_test_flag(args.test_mode)
            /\ pc' = "train_init_env"
            /\ UNCHANGED exit_code
    /\ UNCHANGED <<inputVars, usage, dirs, env_ports, snapshot, counter, model,
                   trainer, post_tests, saves, evalVars>>

\* lines 69-71: env = init_env(config['ENV_CONFIG']); the lookup raises when
\* the section is missing, and the construction itself may fail
train_init_env ==
    /\ pc = "train_init_env"
    /\ IF config_file.kind \in {"missing", "no_env"}
       THEN Raise /\ UNCHANGED env_ports
       ELSE \/ /\ env_ports' = env_ports \cup {init_env(0, DefaultPort)}
               /\ pc' = "train_counter"
               /\ UNCHANGED exit_code
            \/ Raise /\ UNCHANGED env_ports
    /\ UNCHANGED <<inputVars, usage, dirs, trainVars, evalVars>>

\* line 77 with the two intervals passed in the wrong order
train_counter_swapped ==
    /\ pc = "train_counter"
    /\ IF config_file.kind = "bad_train"
       THEN Raise /\ UNCHANGED counter
       ELSE /\ counter' = Counter(config_file.total_step,
                                  config_file.log_interval,
                                  config_file.test_interval)
            /\ pc' = "train_model"
            /\ UNCHANGED exit_code
    /\ UNCHANGED <<inputVars, usage, dirs, env_ports, snapshot, flags, model,
                   trainer, post_tests, saves, evalVars>>

\* lines 74-77: the three getfloat calls and the Counter
train_counter ==
    /\ pc = "train_counter"
    /\ IF config_file.kind = "bad_train"
       THEN Raise /\ UNCHANGED counter
       ELSE /\ counter' = Counter(config_file.total_step,
                                  config_file.test_interval,
                                  config_file.log_interval)
            /\ pc' = "train_model"
            /\ UNCHANGED exit_code
    /\ UNCHANGED <<inputVars, usage, dirs, env_ports, snapshot, flags, model,
                   trainer, post_tests, saves, evalVars>>

\* lines 80-82: seed and MA2C(...)
train_model ==
    /\ pc = "train_model"
    /\ IF config_file.kind = "bad_model"
       THEN Raise /\ UNCHANGED model
       ELSE /\ model' = TRUE
            /\ pc' = "train_run"
            /\ UNCHANGED exit_code
    /\ UNCHANGED <<inputVars, usage, dirs, env_ports, snapshot, flags, counter,
                   trainer, post_tests, saves, evalVars>>

\* lines 86-88, Trainer.run: one iteration of the step loop; the Trainer was
\* given in_test as its fifth argument
Trainer_step(in_test) ==
    /\ pc = "train_run"
    /\ ~is_done(counter)
    /\ counter' = advance(counter)
    /\ trainer' = [trainer EXCEPT
                     !.steps = @ + 1,
                     !.in_tests = IF in_test /\ should_test(counter', counter'.cur_step)
                                  THEN @ + 1 ELSE @]
    /\ UNCHANGED <<inputVars, pc, exit_code, usage, dirs, env_ports, snapshot,
                   flags, model, post_tests, saves, evalVars>>

trainer_run_step == Trainer_step(flags.in_test)

\* line 88: trainer.run() returns once the counter is done
trainer_run_return ==
    /\ pc = "train_run"
    /\ is_done(counter)
    /\ trainer' = [trainer EXCEPT !.end_step = counter.cur_step]
    /\ pc' = "train_post_test"
    /\ UNCHANGED <<inputVars, exit_code, usage, dirs, env_ports, snapshot, flags,
                   counter, model, post_tests, saves, evalVars>>

\* line 88: an error raised inside trainer.run() propagates out of train
trainer_run_raise ==
    /\ pc = "train_run"
    /\ Raise
    /\ UNCHANGED <<inputVars, usage, dirs, env_ports, trainVars, evalVars>>

\* Tester.run_offline: one offline test pass; it reads the counter
Tester_run_offline ==
    /\ post_tests' = post_tests + 1
    /\ UNCHANGED counter

\* lines 90-98 with the save in a finally clause around the test
train_post_test_finally ==
    /\ pc = "train_post_test"
    /\ IF flags.post_test
       THEN \/ /\ Tester_run_offline
               /\ pc' = "train_save"
               /\ UNCHANGED <<exit_code, saves>>
            \/ /\ Raise
               /\ saves' = Append(saves, counter.cur_step)
               /\ UNCHANGED <<post_tests, counter>>
       ELSE pc' = "train_save" /\ UNCHANGED <<post_tests, counter, exit_code, saves>>
    /\ UNCHANGED <<inputVars, usage, dirs, env_ports, snapshot, flags,
                   model, trainer, evalVars>>

\* lines 90-93; an error raised by the Tester propagates out of train
train_post_test ==
    /\ pc = "train_post_test"
    /\ IF flags.post_test
       THEN \/ Tester_run_offline /\ pc' = "train_save" /\ UNCHANGED exit_code
            \/ Raise /\ UNCHANGED <<post_tests, counter>>
       ELSE pc' = "train_save" /\ UNCHANGED <<post_tests, counter, exit_code>>
    /\ UNCHANGED <<inputVars, usage, dirs, env_ports, snapshot, flags,
                   model, trainer, saves, evalVars>>

\* lines 96-98 indented under "if post_test:"
train_save_indented ==
    /\ pc = "train_save"
    /\ saves' = IF flags.post_test THEN Append(saves, counter.cur_step) ELSE saves
    /\ pc' = "exit"
    /\ exit_code' = 0
    /\ UNCHANGED <<inputVars, usage, dirs, env_ports, snapshot, flags, counter,
                   model, trainer, post_tests, evalVars>>

\* lines 96-98: model.save(dirs['model'], final_step); train returns and the
\* process ends
train_save ==
    /\ pc = "train_save"
    /\ saves' = Append(saves, counter.cur_step)
    /\ pc' = "exit"
    /\ exit_code' = 0
    /\ UNCHANGED <<inputVars, usage, dirs, env_ports, snapshot, flags, counter,
                   model, trainer, post_tests, evalVars>>

\* --------------------------------------------------------------- evaluate
Terminal == {"returned", "raised", "finished"}

\* what the file system holds at agent_dir = base_dir + '/' + agent
FsAt(agent_dir) ==
    agent_fs[SubSeq(agent_dir, Len(base_dir) + 2, Len(agent_dir))]

SetThread(self, newpc) == [threads EXCEPT ![self].pc = newpc]

\* lines 133-141: init_dir, init_log, agents = args.agents.split(',')
evaluate_init_dir ==
    /\ pc = "evaluate_init_dir"
    /\ dirs' = init_dir(dirs, {"eva_data", "eva_log"})
    /\ agents' = Split(args.agents, ",")
    /\ pc' = "evaluate_loop"
    /\ UNCHANGED <<inputVars, exit_code, usage, env_ports, trainVars, threads,
                   joined, outputs, log>>

\* the Thread created without the port argument: init_env falls back on its
\* default port
thread_port_default(i) == DefaultPort

\* line 144: enumerate(agents) numbers the agents from 0; i is the 1-based
\* position in the model's sequence
thread_port(i) == i - 1

\* lines 144-148: the next Thread object, its arguments bound
evaluate_create_thread ==
    /\ pc = "evaluate_loop"
    /\ Len(threads) < Len(agents)
    /\ LET i == Len(threads) + 1
       IN  threads' = Append(threads,
                             [agent_dir |-> base_dir \o <<"/">> \o agents[i],
                              port |-> thread_port(i),
                              pc |-> "created",
                              agent |-> <<>>])
    /\ pc' = "evaluate_start"
    /\ UNCHANGED <<inputVars, exit_code, usage, dirs, env_ports, trainVars,
                   agents, joined, outputs, log>>

\* thread.start() with the port negotiated at start: the lowest port no
\* environment holds yet
evaluate_start_thread_negotiate ==
    /\ pc = "evaluate_start"
    /\ threads' = [threads EXCEPT
                     ![Len(threads)].pc = "check_dir",
                     ![Len(threads)].port =
                         CHOOSE p \in 0..MaxAgents :
                             /\ \A e \in env_ports : e.port # p
                             /\ \A q \in 0..(p - 1) : \E e \in env_ports : e.port = q]
    /\ pc' = IF Len(threads) < Len(agents) THEN "evaluate_loop" ELSE "evaluate_join"
    /\ UNCHANGED <<inputVars, exit_code, usage, dirs, env_ports, trainVars,
                   agents, joined, outputs, log>>

\* the loop going on without thread.start(): the Thread is never started
evaluate_start_thread_forgotten ==
    /\ pc = "evaluate_start"
    /\ pc' = IF Len(threads) < Len(agents) THEN "evaluate_loop" ELSE "evaluate_join"
    /\ UNCHANGED <<inputVars, exit_code, usage, dirs, env_ports, trainVars,
                   evalVars>>

\* lines 149-150: thread.start(); the for loop ends after the last agent
evaluate_start_thread ==
    /\ pc = "evaluate_start"
    /\ threads' = SetThread(Len(threads), "check_dir")
    /\ pc' = IF Len(threads) < Len(agents) THEN "evaluate_loop" ELSE "evaluate_join"
    /\ UNCHANGED <<inputVars, exit_code, usage, dirs, env_ports, trainVars,
                   agents, joined, outputs, log>>

\* thread.join(timeout): the join returns although its thread still runs
evaluate_join_timeout ==
    /\ pc = "evaluate_join"
    /\ joined < Len(threads)
    /\ joined' = joined + 1
    /\ UNCHANGED <<inputVars, pc, exit_code, usage, dirs, env_ports, trainVars,
                   agents, threads, outputs, log>>

\* a join that re-raises the error its thread died of
evaluate_join_reraise ==
    /\ pc = "evaluate_join"
    /\ joined < Len(threads)
    /\ threads[joined + 1].pc \in Terminal
    /\ joined' = joined + 1
    /\ IF threads[joined + 1].pc = "raised"
       THEN Raise
       ELSE UNCHANGED <<pc, exit_code>>
    /\ UNCHANGED <<inputVars, usage, dirs, env_ports, trainVars,
                   agents, threads, outputs, log>>

\* lines 151-152: thread.join() returns once that thread has ended, however
\* it ended
evaluate_join ==
    /\ pc = "evaluate_join"
    /\ joined < Len(threads)
    /\ threads[joined + 1].pc \in Terminal
    /\ joined' = joined + 1
    /\ UNCHANGED <<inputVars, pc, exit_code, usage, dirs, env_ports, trainVars,
                   agents, threads, outputs, log>>

\* the function returning without the join loop
evaluate_return_no_join ==
    /\ pc = "evaluate_join"
    /\ pc' = "exit"
    /\ exit_code' = 0
    /\ UNCHANGED <<inputVars, usage, dirs, env_ports, trainVars, evalVars>>

\* line 152 to the end of the script: evaluate returns and the process ends
evaluate_return ==
    /\ pc = "evaluate_join"
    /\ joined = Len(threads)
    /\ pc' = "exit"
    /\ exit_code' = 0
    /\ UNCHANGED <<inputVars, usage, dirs, env_ports, trainVars, evalVars>>

\* ------------------------------------------------------------ evaluate_fn
mainVarsOfWorker == <<inputVars, pc, exit_code, usage, dirs, trainVars, agents,
                      joined>>

\* lines 102-105
fn_check_dir(self) ==
    /\ self \in DOMAIN threads
    /\ threads[self].pc = "check_dir"
    /\ LET agent == LastOf(Split(threads[self].agent_dir, "/"))
       IN  IF FsAt(threads[self].agent_dir) = "no_dir"
           THEN /\ log' = log \cup {agent}
                /\ threads' = [threads EXCEPT ![self].pc = "returned",
                                              ![self].agent = agent]
           ELSE /\ log' = log
                /\ threads' = [threads EXCEPT ![self].pc = "find_file",
                                              ![self].agent = agent]
    /\ UNCHANGED <<mainVarsOfWorker, env_ports, outputs>>

\* lines 107-109 without the return after the failed find_file
fn_find_file_no_return(self) ==
    /\ self \in DOMAIN threads
    /\ threads[self].pc = "find_file"
    /\ threads' = SetThread(self, "init_env")
    /\ log' = IF FsAt(threads[self].agent_dir) = "no_config"
              THEN log \cup {threads[self].agent} ELSE log
    /\ UNCHANGED <<mainVarsOfWorker, env_ports, outputs>>

\* lines 107-111; find_file logs the error when it finds no config file
fn_find_file(self) ==
    /\ self \in DOMAIN threads
    /\ threads[self].pc = "find_file"
    /\ IF FsAt(threads[self].agent_dir) = "no_config"
       THEN /\ threads' = SetThread(self, "returned")
            /\ log' = log \cup {threads[self].agent}
       ELSE /\ threads' = SetThread(self, "init_env")
            /\ log' = log
    /\ UNCHANGED <<mainVarsOfWorker, env_ports, outputs>>

\* lines 114-116: config['ENV_CONFIG'] raises when the section is missing,
\* and the uncaught error ends this thread only
fn_init_env(self) ==
    /\ self \in DOMAIN threads
    /\ threads[self].pc = "init_env"
    /\ IF FsAt(threads[self].agent_dir) = "bad_config"
       THEN /\ threads' = SetThread(self, "raised")
            /\ UNCHANGED env_ports
       ELSE /\ threads' = SetThread(self, "load_model")
            /\ env_ports' = env_ports \cup {init_env(self, threads[self].port)}
    /\ UNCHANGED <<mainVarsOfWorker, outputs, log>>

\* lines 120-123; model.load logs the error when it returns False
fn_load_model(self) ==
    /\ self \in DOMAIN threads
    /\ threads[self].pc = "load_model"
    /\ IF FsAt(threads[self].agent_dir) = "load_fail"
       THEN /\ threads' = SetThread(self, "returned")
            /\ log' = log \cup {threads[self].agent}
       ELSE /\ threads' = SetThread(self, "evaluator_run")
            /\ log' = log
    /\ UNCHANGED <<mainVarsOfWorker, env_ports, outputs>>

\* the key under which the Evaluator of this worker writes: env.agent, set
\* at line 126
output_key(self) == threads[self].agent

\* lines 124-129, Evaluator.run: while in "evaluator_run" the worker writes
\* files keyed by env.agent under output_dir
fn_evaluator_run(self) ==
    /\ self \in DOMAIN threads
    /\ threads[self].pc = "evaluator_run"
    /\ threads' = SetThread(self, "finished")
    /\ outputs' = outputs \cup {output_key(self)}
    /\ UNCHANGED <<mainVarsOfWorker, env_ports, log>>

\* lines 101-129: the next step of worker self
evaluate_fn(self) ==
    \/ fn_check_dir(self)
    \/ fn_find_file(self)
    \/ fn_init_env(self)
    \/ fn_load_model(self)
    \/ fn_evaluator_run(self)

\* ------------------------------------------------------------------ Spec
Next ==
    \/ parse_args
    \/ main
    \/ train_init_dir
    \/ train_copy_file
    \/ train_config
    \/ train_init_env
    \/ train_counter
    \/ train_model
    \/ trainer_run_step
    \/ trainer_run_return
    \/ trainer_run_raise
    \/ train_post_test
    \/ train_save
    \/ evaluate_init_dir
    \/ evaluate_create_thread
    \/ evaluate_start_thread
    \/ evaluate_join
    \/ evaluate_return
    \/ \E self \in 1..MaxAgents : fn_check_dir(self)
    \/ \E self \in 1..MaxAgents : fn_find_file(self)
    \/ \E self \in 1..MaxAgents : fn_init_env(self)
    \/ \E self \in 1..MaxAgents : fn_load_model(self)
    \/ \E self \in 1..MaxAgents : fn_evaluator_run(self)

Spec == Init /\ [][Next]_vars

\* ------------------------------------------- the step counter on its own
\* Any sequence of advance() calls on a counter of any total_step > 0.
CounterInit ==
    /\ args \in NoOptionArgs
    /\ config_file = DefaultConfig
    /\ agent_fs = [a \in AgentNames |-> "ok"]
    /\ pc = "counter_api"
    /\ exit_code = -1
    /\ usage = FALSE
    /\ dirs = {}
    /\ snapshot = FALSE
    /\ env_ports = {}
    /\ flags = NoFlags
    /\ \E t \in 1..MaxTotalStep, ti \in 1..MaxInterval, li \in 1..MaxInterval :
          counter = Counter(t, ti, li)
    /\ model = FALSE
    /\ trainer = NoTrainer
    /\ post_tests = 0
    /\ saves = <<>>
    /\ agents = <<>>
    /\ threads = <<>>
    /\ joined = 0
    /\ outputs = {}
    /\ log = {}
    /\ calls = <<>>

\* one advance() call; trainer.steps counts the calls made
counter_advance ==
    /\ pc = "counter_api"
    /\ trainer.steps < MaxCalls
    /\ counter' = advance(counter)
    /\ trainer' = [trainer EXCEPT !.steps = @ + 1]
    /\ UNCHANGED <<inputVars, pc, exit_code, usage, dirs, env_ports, snapshot,
                   flags, model, post_tests, saves, evalVars>>

CounterNext == counter_advance

CounterSpec == CounterInit /\ [][CounterNext]_vars

\* ------------------------------------------------------- fair scheduling
\* the steps of the main thread: everything but the workers' steps
MainThread ==
    \/ parse_args
    \/ main
    \/ train_init_dir
    \/ train_copy_file
    \/ train_config
    \/ train_init_env
    \/ train_counter
    \/ train_model
    \/ trainer_run_step
    \/ trainer_run_return
    \/ trainer_run_raise
    \/ train_post_test
    \/ train_save
    \/ evaluate_init_dir
    \/ evaluate_create_thread
    \/ evaluate_start_thread
    \/ evaluate_join
    \/ evaluate_return

\* the main thread is not starved: a step of it that stays possible is
\* taken. Nothing is assumed of the workers, whose Evaluator may run for ever.
FairSpec == Spec /\ WF_vars(MainThread)

\* ------------------------------------------ the directory manager on its own
\* init_dir called any number of times, with the roles of train (line 60) or
\* of evaluate (line 134), on a base directory holding any earlier content.
TrainRoles == {"log", "data", "model"}
EvalRoles == {"eva_data", "eva_log"}
AgentEntries == {"a", "a/data", "a/model", "a/data/config.ini"}

BaseDirContents ==
    {d \in SUBSET (DOMAIN ParentOf) :
        \A e \in d : ParentOf[e] = "" \/ ParentOf[e] \in d}

DirInit ==
    /\ args \in NoOptionArgs
    /\ config_file = DefaultConfig
    /\ agent_fs = [a \in AgentNames |-> "ok"]
    /\ pc = "init_dir_api"
    /\ exit_code = -1
    /\ usage = FALSE
    /\ dirs \in BaseDirContents
    /\ snapshot = FALSE
    /\ env_ports = {}
    /\ flags = NoFlags
    /\ counter = NoCounter
    /\ model = FALSE
    /\ trainer = NoTrainer
    /\ post_tests = 0
    /\ saves = <<>>
    /\ agents = <<>>
    /\ threads = <<>>
    /\ joined = 0
    /\ outputs = {}
    /\ log = {}
    /\ calls = <<>>

dir_init(roles) ==
    /\ pc = "init_dir_api"
    /\ Len(calls) < MaxInitCalls
    /\ dirs' = init_dir(dirs, roles)
    /\ calls' = Append(calls, roles)
    /\ UNCHANGED <<args, config_file, agent_fs, pc, exit_code, usage, env_ports,
                   trainVars, evalVars>>

\* line 60: init_dir(base_dir)
dir_init_train == dir_init(TrainRoles)

\* line 134: init_dir(base_dir, pathes=['eva_data', 'eva_log'])
dir_init_evaluate == dir_init(EvalRoles)

DirNext ==
    \/ dir_init_train
    \/ dir_init_evaluate

DirSpec == DirInit /\ [][DirNext]_vars

\* ------------------------------------------------- train(args) on its own
\* train called with any args namespace and any configuration file, among
\* them the configuration total_step=100, test_interval=20, log_interval=10.
ScenarioConfigs ==
    { [kind |-> "ok", total_step |-> 100, test_interval |-> 20,
       log_interval |-> 10] }

TrainInit ==
    /\ args \in TrainArgs
    /\ config_file \in ConfigFiles \cup ScenarioConfigs
    /\ agent_fs = [a \in AgentNames |-> "ok"]
    /\ pc = "train_init_dir"
    /\ exit_code = -1
    /\ usage = FALSE
    /\ dirs = {}
    /\ snapshot = FALSE
    /\ env_ports = {}
    /\ flags = NoFlags
    /\ counter = NoCounter
    /\ model = FALSE
    /\ trainer = NoTrainer
    /\ post_tests = 0
    /\ saves = <<>>
    /\ agents = <<>>
    /\ threads = <<>>
    /\ joined = 0
    /\ outputs = {}
    /\ log = {}
    /\ calls = <<>>

TrainNext ==
    \/ train_init_dir
    \/ train_copy_file
    \/ train_config
    \/ train_init_env
    \/ train_counter
    \/ train_model
    \/ trainer_run_step
    \/ trainer_run_return
    \/ trainer_run_raise
    \/ train_post_test
    \/ train_save

TrainSpec == TrainInit /\ [][TrainNext]_vars

\* ================================================================ claims
IsEvaluate == args.option = "evaluate"
IsTrain == args.option = "train"
Started(i) == i \in DOMAIN threads /\ threads[i].pc # "created"
Running(i) == Started(i) /\ threads[i].pc \notin Terminal

\* C1: in evaluate, exactly n workers are started for an agent list of
\* length n >= 1, the worker at list position i (from 0) is given port i and
\* binds that port, and no two workers hold the same port.
C1_PortIsListPosition ==
    IsEvaluate =>
      /\ \A i \in DOMAIN threads : threads[i].port = i - 1
      /\ \A i, j \in DOMAIN threads : i # j => threads[i].port # threads[j].port
      /\ \A e \in env_ports : e.port = e.owner - 1
      /\ \A e, f \in env_ports : e # f => e.port # f.port
      /\ Len(threads) <= Len(agents)
      /\ pc \in {"evaluate_join", "exit"} =>
            /\ Len(threads) = Len(Split(args.agents, ","))
            /\ Len(threads) >= 1
            /\ \A i \in DOMAIN threads : Started(i)

C1_Witness ==
    /\ IsEvaluate
    /\ pc = "exit"
    /\ Len(threads) = 2
    /\ {e.port : e \in env_ports} = {0, 1}

\* C2: a failing worker (missing folder, no config, model load false, or an
\* error raised in the worker) never blocks a sibling and never makes
\* evaluate raise: a running worker can always take its next step, evaluate
\* ends with exit status 0, and when it has returned every worker whose own
\* folder is in order has run its evaluator to the end.
C2_FailureIsContained ==
    IsEvaluate =>
      /\ \A i \in DOMAIN threads : Running(i) => ENABLED evaluate_fn(i)
      /\ pc = "exit" => exit_code = 0
      /\ pc = "exit" =>
            \A i \in DOMAIN threads :
                FsAt(threads[i].agent_dir) = "ok" =>
                    /\ threads[i].pc = "finished"
                    /\ output_key(i) \in outputs

C2_Witness ==
    /\ IsEvaluate
    /\ pc = "exit"
    /\ exit_code = 0
    /\ \E i, j \in DOMAIN threads :
          /\ threads[i].pc = "raised"
          /\ threads[j].pc = "finished"

\* C3: evaluate returns only after every worker it started has finished.
C3_ReturnAfterAllWorkers ==
    (IsEvaluate /\ pc = "exit") =>
        /\ joined = Len(threads)
        /\ \A i \in DOMAIN threads : threads[i].pc \in Terminal

C3_Witness ==
    /\ IsEvaluate
    /\ pc = "exit"
    /\ Len(threads) = 2
    /\ threads[1].pc = "finished"
    /\ threads[2].pc = "returned"

\* C4 as stated: every worker of the call has its port assigned before any
\* worker of the call starts running.
C4_AllPortsBeforeAnyStart ==
    (\E i \in DOMAIN threads : Started(i)) => Len(threads) = Len(agents)

\* C4, amended: each worker's port is assigned, as its list position, when
\* its thread object is created, before that worker starts running, and no
\* thread's port changes afterwards.
C4_PortBeforeOwnStart ==
    [][ (\A i \in DOMAIN threads' :
             threads'[i].pc # "created" =>
                 (i \in DOMAIN threads /\ threads[i].port = i - 1))
        /\ (\A k \in DOMAIN threads : threads'[k].port = threads[k].port)
      ]_vars

C4_Witness ==
    /\ Len(threads) = 2
    /\ Running(1)
    /\ Running(2)
    /\ threads[1].port = 0
    /\ threads[2].port = 1

\* C5: each worker writes under the shared output directory only under
\* its own agent identifier, and no two workers write under the same key at
\* the same time, whatever the agent list is.
C5_NoWriteConflict ==
    /\ \A i \in DOMAIN threads :
          threads[i].pc = "evaluator_run" =>
              output_key(i) = LastOf(Split(threads[i].agent_dir, "/"))
    /\ \A i, j \in DOMAIN threads :
          (i # j /\ threads[i].pc = "evaluator_run"
                 /\ threads[j].pc = "evaluator_run")
              => output_key(i) # output_key(j)

\* C6: when train aborts on a missing or malformed configuration, no run
\* directory has been created, no snapshot copied and no environment built.
C6_BadConfigBeforeResources ==
    (IsTrain /\ config_file.kind # "ok" /\ pc = "exit" /\ exit_code = 1) =>
        /\ dirs = {}
        /\ ~snapshot
        /\ env_ports = {}

\* C7: a test mode outside the four valid ones is rejected by parse_args:
\* the process ends with argparse's status before train is entered, with no
\* directory, snapshot or environment.
C7_BadModeRejectedAtParse ==
    (IsTrain /\ args.test_mode \notin ValidModes) =>
        /\ pc \in {"parse_args", "exit"}
        /\ pc = "exit" => exit_code = 2
        /\ dirs = {}
        /\ ~snapshot
        /\ env_ports = {}
        /\ ~flags.set

C7_Witness ==
    /\ IsTrain
    /\ args.test_mode = "bad_mode"
    /\ pc = "exit"
    /\ exit_code = 2

InTestModes == {"in_train_test", "all_test"}
PostTestModes == {"after_train_test", "all_test"}
TrainCompleted == IsTrain /\ pc = "exit" /\ exit_code = 0

\* C8: in-loop tests happen only in the modes whose in_train_test flag is
\* true; the post-training test runs exactly once in the modes whose
\* post_test flag is true and never otherwise, and only after is_done()
\* has become true and the step loop has ended.
C8_TestsFollowMode ==
    IsTrain =>
      /\ trainer.in_tests > 0 => args.test_mode \in InTestModes
      /\ post_tests > 0 =>
            /\ args.test_mode \in PostTestModes
            /\ post_tests = 1
            /\ is_done(counter)
            /\ trainer.end_step # -1
      /\ TrainCompleted =>
            post_tests = IF args.test_mode \in PostTestModes THEN 1 ELSE 0

C8_Witness ==
    /\ TrainCompleted
    /\ args.test_mode = "after_train_test"
    /\ counter.cur_step >= 2 * counter.test_step
    /\ trainer.in_tests = 0
    /\ post_tests = 1

\* C9: a training run that completes saves the model exactly once, as its
\* last step (after the step loop and after any post-training test), tagged
\* with the value the counter had when the step loop ended.
C9_SaveOnceWithTerminalStep ==
    IsTrain =>
      /\ Len(saves) <= 1
      /\ Len(saves) = 1 =>
            /\ pc = "exit"
            /\ trainer.end_step # -1
            /\ saves[1] = trainer.end_step
            /\ args.test_mode \in PostTestModes => post_tests = 1
      /\ TrainCompleted => Len(saves) = 1

C9_Witness ==
    /\ TrainCompleted
    /\ post_tests = 1
    /\ saves = <<counter.total_step>>
    /\ counter.total_step = MaxTotalStep

\* C10: for every total_step > 0 and every sequence of advance() calls,
\* current_step never exceeds total_step and never decreases, and an
\* advance() at current_step = total_step leaves current_step unchanged.
C10_CounterSaturates ==
    /\ [](counter.cur_step <= counter.total_step)
    /\ [][ (counter'.cur_step >= counter.cur_step)
           /\ (counter.cur_step = counter.total_step =>
                   counter'.cur_step = counter.cur_step)
      ]_vars

C10_Witness ==
    /\ pc = "counter_api"
    /\ counter.cur_step = counter.total_step
    /\ trainer.steps > counter.total_step

IsScenario == config_file \in ScenarioConfigs /\ counter # NoCounter
IsMultiple(step, interval) == \E k \in 0..step : step = k * interval

C12_ResolveTable ==
    /\ flags.set =>
          /\ args.test_mode \in ValidModes
          /\ <<flags.in_test, flags.post_test>> =
                CASE args.test_mode = "no_test" -> <<FALSE, FALSE>>
                  [] args.test_mode = "in_train_test" -> <<TRUE, FALSE>>
                  [] args.test_mode = "after_train_test" -> <<FALSE, TRUE>>
                  [] args.test_mode = "all_test" -> <<TRUE, TRUE>>
    /\ args.test_mode \notin ValidModes =>
          /\ ~flags.set
          /\ pc \in {"train_init_dir", "train_copy_file", "train_config", "exit"}
          /\ pc = "exit" => exit_code = 1
    /\ pc \in {"train_init_env", "train_counter", "train_model", "train_run",
               "train_post_test", "train_save"} => flags.set

C12_Witness ==
    /\ args.test_mode = "bad_mode"
    /\ config_file.kind = "ok"
    /\ pc = "exit"
    /\ exit_code = 1
    /\ snapshot

FailKinds == {"no_dir", "no_config", "load_fail"}

\* C13: each per-agent failure kind (folder not found, config not found,
\* model load failed) is logged as an error for that agent and ends that
\* task without running its evaluator, so that the failure shows as a log
\* line plus absent output for that agent; siblings are unaffected and the
\* harness ends with status 0.
C13_FailureLoggedOutputAbsent ==
    IsEvaluate =>
      /\ \A i \in DOMAIN threads :
            FsAt(threads[i].agent_dir) \in FailKinds =>
                /\ threads[i].pc \notin {"evaluator_run", "finished", "raised"}
                /\ threads[i].pc = "returned" =>
                      /\ threads[i].agent \in log
                      /\ threads[i].agent \notin outputs
      /\ pc = "exit" =>
            /\ exit_code = 0
            /\ \A i \in DOMAIN threads :
                  FsAt(threads[i].agent_dir) = "ok" => threads[i].pc = "finished"

TrainFailed == IsTrain /\ pc = "exit" /\ exit_code = 1

\* C14: an error on the training path ends the run: the step that fails
\* does nothing else, no step of train follows it, the model is not saved
\* and training is not started again.
C14_ErrorsEndTheRun ==
    /\ [](TrainFailed => saves = <<>>)
    /\ [][ /\ (IsTrain /\ pc # "exit" /\ pc' = "exit" /\ exit_code' = 1) =>
                 UNCHANGED <<inputVars, usage, dirs, env_ports, trainVars, evalVars>>
           /\ TrainFailed => UNCHANGED vars
      ]_vars

C14_Witness ==
    /\ TrainFailed
    /\ config_file.kind = "ok"
    /\ flags.post_test
    /\ trainer.end_step = counter.total_step
    /\ post_tests = 0

\* C15: the harness has no timeout and no cancellation: evaluate does not
\* return while a started worker is still running, the join of a running
\* worker does not return, and only the worker itself changes its state.
C15_NoTimeoutNoCancel ==
    [][ IsEvaluate =>
          /\ (pc # "exit" /\ pc' = "exit") =>
                \A i \in DOMAIN threads : ~Running(i)
          /\ joined' # joined =>
                (joined' = joined + 1 /\ threads[joined'].pc \in Terminal)
          /\ \A i \in DOMAIN threads :
                Running(i) => (threads'[i] = threads[i] \/ evaluate_fn(i))
      ]_vars

\* the harness is blocked in the join of a worker that has not finished,
\* all its siblings having ended
C15_Witness ==
    /\ IsEvaluate
    /\ pc = "evaluate_join"
    /\ Len(threads) = 2
    /\ joined = 1
    /\ Running(2)
    /\ ~ENABLED evaluate_join
    /\ ~ENABLED evaluate_return

\* C16: directory initialization is idempotent and keeps what the base
\* directory holds: a call creates its role directories and nothing else,
\* removes nothing, raises no error, and changes nothing when called again
\* with the same roles; the call of evaluate leaves the agents' own
\* subdirectories as they were.
C16_InitDirIdempotent ==
    [][ /\ dirs \subseteq dirs'
        /\ pc' = pc /\ exit_code' = exit_code
        /\ Len(calls') = Len(calls) + 1 =>
              LET roles == calls'[Len(calls')] IN
                /\ roles \subseteq dirs'
                /\ (dirs' \ dirs) \subseteq roles
                /\ (\E k \in 1..Len(calls) : calls[k] = roles) => dirs' = dirs
                /\ roles = EvalRoles =>
                      \A e \in AgentEntries : (e \in dirs') <=> (e \in dirs)
      ]_vars

\* init_dir was called twice for train and then for evaluate on a base
\* directory that held a config snapshot and an agent's folders
C16_Witness ==
    /\ calls = <<TrainRoles, TrainRoles, EvalRoles>>
    /\ "data/config.ini" \in dirs
    /\ AgentEntries \subseteq dirs
    /\ (TrainRoles \cup EvalRoles) \subseteq dirs

\* C17: a command line without a subcommand never reaches train or evaluate:
\* the program prints the help and exits with status 1, having created no
\* directory, environment, model, thread or output.
C17_NoSubcommandRunsNothing ==
    args.option = "" =>
        /\ pc \in {"parse_args", "exit"}
        /\ pc = "exit" => (exit_code = 1 /\ usage)
        /\ dirs = {} /\ env_ports = {} /\ ~snapshot /\ ~model
        /\ counter = NoCounter /\ trainer = NoTrainer /\ saves = <<>>
        /\ threads = <<>> /\ outputs = {} /\ log = {}

C17_Witness == args.option = "" /\ pc = "exit" /\ exit_code = 1 /\ usage

\* the phases of train in the order of its code
TrainPhases ==
    <<"train_init_dir", "train_copy_file", "train_config", "train_init_env",
      "train_counter", "train_model", "train_run", "train_post_test",
      "train_save", "exit">>

PhaseOf(p) == CHOOSE k \in DOMAIN TrainPhases : TrainPhases[k] = p

\* C18: a training run goes through its phases in one fixed order, none
\* skipped or repeated: directories, config snapshot, environment, counter
\* created at step 0, model, training loop until the counter is done,
\* optional post-training test, save; each phase's effect happens in that
\* phase only, and no training step is taken without the config snapshot.
C18_PhasesInOrder ==
    /\ [](IsTrain /\ trainer.steps > 0 =>
             /\ snapshot /\ model /\ flags.set
             /\ {"log", "data", "model"} \subseteq dirs
             /\ env_ports # {})
    /\ [][ IsTrain /\ pc \notin {"parse_args", "main"} =>
             /\ pc' # pc =>
                  \/ PhaseOf(pc') = PhaseOf(pc) + 1
                  \/ pc' = "exit" /\ exit_code' = 1
             /\ dirs' # dirs => pc = "train_init_dir"
             /\ snapshot' # snapshot => pc = "train_copy_file"
             /\ flags' # flags => pc = "train_config"
             /\ env_ports' # env_ports => pc = "train_init_env"
             /\ (counter = NoCounter /\ counter' # counter) =>
                   (pc = "train_counter" /\ counter'.cur_step = 0)
             /\ model' # model => pc = "train_model"
             /\ (trainer'.steps # trainer.steps \/ (counter # NoCounter /\ counter' # counter)) =>
                   (pc = "train_run" /\ pc' = pc)
             /\ (pc = "train_run" /\ pc' = "train_post_test") => is_done(counter)
             /\ post_tests' # post_tests =>
                   (pc = "train_post_test" /\ flags.post_test /\ post_tests = 0)
             /\ saves' # saves => (pc = "train_save" /\ saves = <<>>)
       ]_vars

C18_Witness ==
    /\ IsTrain /\ pc = "train_save" /\ post_tests = 1 /\ snapshot /\ model
    /\ trainer.steps = MaxTotalStep /\ trainer.end_step = counter.cur_step
    /\ saves = <<>>

\* worker i has constructed its environment, binding its port
HasEnv(i) == \E e \in env_ports : e.owner = i

\* C19: the steps of an evaluation worker are gated in order: it constructs
\* its environment only once its agent directory exists and a config file
\* was found, and runs the evaluator only once the model load succeeded. A
\* worker that aborts for a missing directory or config has bound no port; a
\* worker that aborts for a failed model load has its environment and never
\* runs the evaluator.
C19_WorkerStepsGated ==
    IsEvaluate =>
      \A i \in DOMAIN threads :
        LET kind == FsAt(threads[i].agent_dir) IN
          /\ HasEnv(i) => kind \notin {"no_dir", "no_config"}
          /\ HasEnv(i) <=>
                \/ threads[i].pc \in {"load_model", "evaluator_run", "finished"}
                \/ threads[i].pc = "returned" /\ kind = "load_fail"
          /\ threads[i].pc \in {"evaluator_run", "finished"} => kind = "ok"
          /\ (threads[i].pc = "returned" /\ kind \in {"no_dir", "no_config"}) =>
                ~HasEnv(i)
          /\ (threads[i].pc = "returned" /\ kind = "load_fail") =>
                (HasEnv(i) /\ ~ENABLED fn_evaluator_run(i))

C19_Witness ==
    /\ IsEvaluate
    /\ \E i, j \in DOMAIN threads :
          /\ threads[i].pc = "returned" /\ FsAt(threads[i].agent_dir) = "no_config"
          /\ ~HasEnv(i)
          /\ threads[j].pc = "returned" /\ FsAt(threads[j].agent_dir) = "load_fail"
          /\ HasEnv(j)

Ended(i) == i \in DOMAIN threads /\ threads[i].pc \in Terminal

\* C20: when the main thread is scheduled fairly and every started worker
\* eventually finishes, by completing or by aborting, evaluate eventually
\* returns. The harness and its workers never deadlock: a worker that runs
\* can always take its next step, and the main thread waits only in a join
\* on a worker that still runs.
C20_EvaluateReturns ==
    IsEvaluate =>
      /\ [](\A i \in DOMAIN threads : Running(i) => ENABLED evaluate_fn(i))
      /\ []((pc # "exit" /\ ~ENABLED MainThread) =>
               (pc = "evaluate_join" /\ Running(joined + 1)))
      /\ (\A i \in 1..MaxAgents : [](Started(i) => <>Ended(i)))
            => <>(pc = "exit" /\ exit_code = 0 /\ joined = Len(agents))

\* evaluate returned after a run in which the main thread had to wait in the
\* join for a worker that failed and for one that completed
C20_Witness ==
    /\ IsEvaluate /\ pc = "exit" /\ exit_code = 0
    /\ Len(threads) = MaxAgents /\ joined = MaxAgents
    /\ \E i, j \in DOMAIN threads :
          /\ threads[i].pc = "returned" /\ FsAt(threads[i].agent_dir) = "no_dir"
          /\ threads[j].pc = "finished"

====
